---- MODULE Spec2Model ----
(***************************************************************************)
(* A model of the slab pool of go-generic-object-store (slab_pool.go).     *)
(*                                                                         *)
(* A pool owns a list of slabs sorted by descending base address.  Every   *)
(* slab is a memory-mapped region: a header (with the occupancy bitmap)    *)
(* followed by objsPerSlab slots of objSize bytes.  Addresses are plain    *)
(* integers; a slab pointer is the base address of its region.             *)
(***************************************************************************)
EXTENDS Integers, Sequences, FiniteSets, TLC

(* --------------------- the pool under test and the bounds -------------- *)

\* objSize of the pool under test (bytes per object)
ObjSize == 1

\* objsPerSlab of the pool under test (slots per slab)
ObjsPerSlab == 2

\* number of regions the mapping primitive can hand out
NumPages == 3

\* longest list of targets handed to searchBatched
MaxTargets == 2

\* add is called while the pool holds fewer objects than this
MaxObjs == 4

(* ------------------------- memory layout of a slab --------------------- *)

\* bytes in front of the first slot (slab header and bitmap)
HeaderLen == 1

\* slab.getTotalLength: the length of the whole mapped region
getTotalLength == HeaderLen + ObjsPerSlab * ObjSize

\* distance between two regions the mapping primitive hands out; one byte
\* longer than a slab, so that unmapped addresses lie between two slabs
PageLen == getTotalLength + 1

\* the base addresses the mapping primitive can return (never 0)
Bases == {p * PageLen : p \in 1..NumPages}

\* the addresses a caller can pass: below, inside, between and above slabs
Addrs == 0..((NumPages + 1) * PageLen)

\* the values of a byte: the code only copies bytes and compares them for
\* equality, so two values stand for all 256: 0, the byte of freshly mapped
\* memory, and 1, a byte that differs from it
Bytes == {0, 1}

\* byte slices of length n
Slices(n) == [1..n -> Bytes]

\* correctly sized objects
Objects == Slices(ObjSize)

Slots == 0..(ObjsPerSlab - 1)

Min(S) == CHOOSE x \in S : \A y \in S : x <= y

(* ------------------------------- state --------------------------------- *)

VARIABLES
    slabs,      \* slabPool.slabs: sequence of slab pointers (base addresses)
    mem,        \* the mapped slabs of the pool: base address -> [bits, objs]
    leaked,     \* regions unlinked from the pool whose release failed: they stay
                \* reserved; their bytes, which the pool never reads again, are not kept
    ret,        \* the values the last call returned
    panicked,   \* a run-time panic has ended the program
    issued,     \* the (ObjAddr, bytes) pairs add has returned, kept while deleted is false
    nIssued,    \* the number of adds that returned them
    onlyAdds,   \* no addSlab or deleteSlab call has been made on the pool so far
    deleted,    \* deleteSlab has been called on the pool
    sbPc,       \* searchBatched: "idle" or "collect" (the caller ranges over resChan)
    searching,  \* searchBatched: the targets of the call in progress
    tasks,      \* searchBatched: one goroutine per slab, [slab, st, j, k]
    wg,         \* searchBatched: the WaitGroup counter
    resChanClosed, \* searchBatched: close(resChan) has run
    resultSet   \* searchBatched: the result list the collector fills

poolVars == <<slabs, mem, leaked>>
ghostVars == <<issued, nIssued, onlyAdds, deleted>>
sbVars == <<sbPc, searching, tasks, wg, resChanClosed, resultSet>>
vars == <<slabs, mem, leaked, ret, panicked, issued, nIssued, onlyAdds, deleted,
          sbPc, searching, tasks, wg, resChanClosed, resultSet>>

\* the record a call leaves in ret
Ret(op, arg, objAddr, slabAddr, err, found, idx, list) ==
    [op |-> op, arg |-> arg, objAddr |-> objAddr, slabAddr |-> slabAddr,
     err |-> err, found |-> found, idx |-> idx, list |-> list]

(* ------------------------------ the slab ------------------------------- *)

\* slab.addr: the base address of the slab a pointer refers to
addr(sl) == sl

\* the address of slot i of the slab at base
slotAddr(base, i) == base + HeaderLen + i * ObjSize

\* newSlab: a freshly mapped, zero-initialised slab
newSlab ==
    [bits |-> [i \in Slots |-> FALSE],
     objs |-> [i \in Slots |-> [l \in 1..ObjSize |-> 0]]]

\* slab.bitSet().Test(i)
bitTest(m, i) == m.bits[i]

\* slab.getObjByIdx(i): the bytes of slot i, whatever its occupancy bit
getObjByIdx(m, i) == m.objs[i]

\* slab.addObj: first fit over the slots of one slab
addObj(base, m, obj) ==
    LET free == {i \in Slots : ~bitTest(m, i)} IN
    IF free = {}
    THEN [success |-> FALSE, objAddr |-> 0, m |-> m]
    ELSE LET i == Min(free) IN
         [success |-> TRUE,
          objAddr |-> slotAddr(base, i),
          m |-> [bits |-> [m.bits EXCEPT ![i] = TRUE],
                 objs |-> [m.objs EXCEPT ![i] = obj]]]

\* the byte at address a: a slot byte of a mapped slab of the pool; -2 for
\* a byte of a slab header (its value is not modelled) and -1 for an address
\* outside the slabs the pool has mapped (no byte of an object is there)
byteAt(a) ==
    LET owners == {b \in DOMAIN mem : b <= a /\ a < b + getTotalLength} IN
    IF owners = {} THEN -1
    ELSE LET b == CHOOSE x \in owners : TRUE
             off == a - b - HeaderLen
         IN IF off < 0 THEN -2
            ELSE getObjByIdx(mem[b], off \div ObjSize)[(off % ObjSize) + 1]

\* objFromObjAddr: the n bytes starting at address a
objFromObjAddr(a, n) == [l \in 1..n |-> byteAt(a + l - 1)]

\* objAddrFromObj: the address of the first byte of slot i of the slab at base
objAddrFromObj(base, i) == slotAddr(base, i)

(* ------------------------- sort.Search --------------------------------- *)

RECURSIVE bsearch(_, _, _)
\* the loop of sort.Search: the smallest index in [i, j) at which f is true,
\* provided f is false on a prefix and true on the rest
bsearch(i, j, f) ==
    IF i < j
    THEN LET h == (i + j) \div 2 IN
         IF ~f[h] THEN bsearch(h + 1, j, f) ELSE bsearch(i, h, f)
    ELSE i

sortSearch(n, f) == bsearch(0, n, f)

(* ------------------------------ the pool ------------------------------- *)

\* findSlabByAddr comparing with < where the code compares with <=
findSlabByAddrStrict(sl, a) ==
    sortSearch(Len(sl), [i \in 0..(Len(sl) - 1) |-> addr(sl[i + 1]) < a])

\* findSlabByAddr returning the number of slabs for an address past the end
\* of the slab the search arrives at
findSlabByAddrInRange(sl, a) ==
    LET n == sortSearch(Len(sl), [i \in 0..(Len(sl) - 1) |-> addr(sl[i + 1]) <= a]) IN
    IF n < Len(sl) /\ a >= addr(sl[n + 1]) + getTotalLength THEN Len(sl) ELSE n

\* slabPool.findSlabByAddr; Go indexes s.slabs from 0, the sequence from 1
findSlabByAddr(sl, a) ==
    sortSearch(Len(sl), [i \in 0..(Len(sl) - 1) |-> addr(sl[i + 1]) <= a])

\* addSlab appending the new slab without looking for its position
insertAtEnd(sl, newSlabAddr) == Len(sl)

\* addSlab: the position at which the new slab is inserted
insertAt(sl, newSlabAddr) ==
    sortSearch(Len(sl), [i \in 0..(Len(sl) - 1) |-> addr(sl[i + 1]) < newSlabAddr])

\* addSlab: append, shift the tail by one, store the new slab
insertSlab(sl, newSlabAddr) ==
    LET at == insertAt(sl, newSlabAddr) IN
    SubSeq(sl, 1, at) \o <<newSlabAddr>> \o SubSeq(sl, at + 1, Len(sl))

\* deleteSlab dropping the last entry without shifting the tail down
removeSlabNoCopy(sl, slabIdx) == SubSeq(sl, 1, Len(sl) - 1)

\* deleteSlab leaving the slab in the sequence
removeSlabKeep(sl, slabIdx) == sl

\* deleteSlab shifting the tail down one entry too far: the entry after
\* index slabIdx goes, the entry at slabIdx stays
removeSlabNext(sl, slabIdx) ==
    SubSeq(sl, 1, slabIdx + 1) \o SubSeq(sl, slabIdx + 3, Len(sl))

\* deleteSlab: shift the tail down over index slabIdx and drop the last entry
removeSlab(sl, slabIdx) ==
    SubSeq(sl, 1, slabIdx) \o SubSeq(sl, slabIdx + 2, Len(sl))

\* the regions the mapping primitive may hand out now
freeBases == Bases \ (DOMAIN mem \cup leaked)

\* add returning from the loop without testing success
addLoopNoCheck(sl, m, obj, i) ==
    IF i > Len(sl)
    THEN [success |-> FALSE, slab |-> 0, r |-> addObj(0, newSlab, obj)]
    ELSE [success |-> TRUE, slab |-> sl[i], r |-> addObj(sl[i], m[sl[i]], obj)]

\* add trying the slabs from the last one to the first
addLoopLast(sl, m, obj, i) ==
    LET fit == {n \in i..Len(sl) : addObj(sl[n], m[sl[n]], obj).success} IN
    IF fit = {}
    THEN [success |-> FALSE, slab |-> 0, r |-> addObj(0, newSlab, obj)]
    ELSE LET n == CHOOSE x \in fit : \A y \in fit : y <= x IN
         [success |-> TRUE, slab |-> sl[n], r |-> addObj(sl[n], m[sl[n]], obj)]

\* add leaving the first slab out of the loop
addLoopSkipFirst(sl, m, obj, i) ==
    LET fit == {n \in (i + 1)..Len(sl) : addObj(sl[n], m[sl[n]], obj).success} IN
    IF fit = {}
    THEN [success |-> FALSE, slab |-> 0, r |-> addObj(0, newSlab, obj)]
    ELSE LET n == Min(fit) IN
         [success |-> TRUE, slab |-> sl[n], r |-> addObj(sl[n], m[sl[n]], obj)]

RECURSIVE addLoop(_, _, _, _)
\* add: the loop over s.slabs from index i on, until an addObj succeeds
addLoop(sl, m, obj, i) ==
    IF i > Len(sl)
    THEN [success |-> FALSE, slab |-> 0, r |-> addObj(0, newSlab, obj)]
    ELSE LET r == addObj(sl[i], m[sl[i]], obj) IN
         IF r.success
         THEN [success |-> TRUE, slab |-> sl[i], r |-> r]
         ELSE addLoop(sl, m, obj, i + 1)

\* slabPool.get
get(obj) == objFromObjAddr(obj, ObjSize)

idle == sbPc = "idle" /\ ~panicked

Init ==
    /\ slabs = <<>>
    /\ mem = <<>>
    /\ leaked = {}
    /\ ret = Ret("none", <<>>, 0, 0, "nil", FALSE, 0, <<>>)
    /\ panicked = FALSE
    /\ issued = {}
    /\ nIssued = 0
    /\ onlyAdds = TRUE
    /\ deleted = FALSE
    /\ sbPc = "idle"
    /\ searching = <<>>
    /\ tasks = <<>>
    /\ wg = 0
    /\ resChanClosed = FALSE
    /\ resultSet = <<>>

\* the history of add after it returned objAddr for obj
record(objAddr, obj) ==
    IF deleted THEN {} ELSE issued \cup {[addr |-> objAddr, obj |-> obj]}

count == IF deleted THEN 0 ELSE nIssued + 1

\* the number of occupied slots of the slabs of the pool
stored == Cardinality({<<b, i>> \in (DOMAIN mem) \X Slots : bitTest(mem[b], i)})

\* slabPool.add(obj) for a correctly sized obj
add(obj) ==
    /\ idle
    /\ stored < MaxObjs
    /\ UNCHANGED <<panicked, leaked, onlyAdds, deleted>>
    /\ UNCHANGED sbVars
    /\ LET lp == addLoop(slabs, mem, obj, 1) IN
       IF lp.success
       THEN /\ mem' = [mem EXCEPT ![lp.slab] = lp.r.m]
            /\ slabs' = slabs
            /\ ret' = Ret("add", obj, lp.r.objAddr, 0, "nil", FALSE, 0, <<>>)
            /\ issued' = record(lp.r.objAddr, obj)
            /\ nIssued' = count
       ELSE \/ \* newSlab fails: the mapping primitive has no memory to give
               /\ ret' = Ret("add", obj, 0, 0, "ENOMEM", FALSE, 0, <<>>)
               /\ UNCHANGED <<slabs, mem, issued, nIssued>>
            \/ \E base \in freeBases :
                 LET r == addObj(base, newSlab, obj) IN
                 /\ slabs' = insertSlab(slabs, base)
                 /\ IF r.success
                    THEN /\ mem' = (base :> r.m) @@ mem
                         /\ ret' = Ret("add", obj, r.objAddr, addr(base), "nil",
                                       FALSE, 0, <<>>)
                         /\ issued' = record(r.objAddr, obj)
                         /\ nIssued' = count
                    ELSE /\ mem' = (base :> newSlab) @@ mem
                         /\ ret' = Ret("add", obj, 0, 0, "AddFailed", FALSE, 0, <<>>)
                         /\ UNCHANGED <<issued, nIssued>>

\* addSlab reporting the error of newSlab after it has inserted a slab
addSlabDirtyError ==
    /\ idle
    /\ UNCHANGED <<panicked, leaked, issued, nIssued, deleted>>
    /\ UNCHANGED sbVars
    /\ onlyAdds' = FALSE
    /\ \E base \in freeBases :
         /\ slabs' = insertSlab(slabs, base)
         /\ mem' = (base :> newSlab) @@ mem
         /\ \/ ret' = Ret("addSlab", <<>>, 0, 0, "ENOMEM", FALSE, 0, <<>>)
            \/ ret' = Ret("addSlab", <<>>, 0, addr(base), "nil", FALSE, 0, <<>>)

\* slabPool.addSlab()
addSlab ==
    /\ idle
    /\ UNCHANGED <<panicked, leaked, issued, nIssued, deleted>>
    /\ UNCHANGED sbVars
    /\ onlyAdds' = FALSE
    /\ \/ /\ ret' = Ret("addSlab", <<>>, 0, 0, "ENOMEM", FALSE, 0, <<>>)
          /\ UNCHANGED <<slabs, mem>>
       \/ \E base \in freeBases :
            /\ slabs' = insertSlab(slabs, base)
            /\ mem' = (base :> newSlab) @@ mem
            /\ ret' = Ret("addSlab", <<>>, 0, addr(base), "nil", FALSE, 0, <<>>)

\* slabPool.deleteSlab(slabAddr)
deleteSlab(slabAddr) ==
    /\ idle
    /\ UNCHANGED sbVars
    /\ LET slabIdx == findSlabByAddr(slabs, slabAddr) IN
       IF slabIdx >= Len(slabs)
       THEN \* s.slabs[slabIdx]: index out of range
            /\ panicked' = TRUE
            /\ ret' = Ret("deleteSlab", 0, 0, 0, "panic", FALSE, 0, <<>>)
            /\ UNCHANGED <<slabs, mem, leaked, issued, nIssued, onlyAdds, deleted>>
       ELSE LET currentSlab == slabs[slabIdx + 1] IN
            /\ slabs' = removeSlab(slabs, slabIdx)
            /\ mem' = [b \in (DOMAIN mem) \ {currentSlab} |-> mem[b]]
            /\ issued' = {}
            /\ nIssued' = 0
            /\ onlyAdds' = FALSE
            /\ deleted' = TRUE
            /\ UNCHANGED panicked
            /\ \/ \* syscall.Munmap succeeds
                  /\ leaked' = leaked
                  /\ ret' = Ret("deleteSlab", 0, 0, 0, "nil", FALSE, 0, <<>>)
               \/ \* syscall.Munmap fails: the region stays mapped
                  /\ leaked' = leaked \cup {currentSlab}
                  /\ ret' = Ret("deleteSlab", 0, 0, 0, "EINVAL", FALSE, 0, <<>>)

\* a call of findSlabByAddr(obj)
callFindSlabByAddr(obj) ==
    /\ idle
    /\ ret' = Ret("findSlabByAddr", obj, 0, 0, "nil", FALSE,
                  findSlabByAddr(slabs, obj), <<>>)
    /\ UNCHANGED <<poolVars, ghostVars, panicked>>
    /\ UNCHANGED sbVars

(* ------------------------------ search --------------------------------- *)

\* search comparing every slot, its occupancy bit set or not
searchSlotsNoBit(currentSlab, m, searchedObj, i) ==
    LET hit == {n \in i..(ObjsPerSlab - 1) :
                   \A j \in 1..ObjSize :
                       getObjByIdx(m[currentSlab], n)[j] = searchedObj[j]} IN
    IF hit = {}
    THEN [objAddr |-> 0, found |-> FALSE]
    ELSE [objAddr |-> slotAddr(currentSlab, Min(hit)), found |-> TRUE]

RECURSIVE searchSlots(_, _, _, _)
\* search: the loop labelled OBJECT over the slots of currentSlab, from slot i
searchSlots(currentSlab, m, searchedObj, i) ==
    IF i >= ObjsPerSlab
    THEN [objAddr |-> 0, found |-> FALSE]
    ELSE IF /\ bitTest(m[currentSlab], i)
            /\ \A j \in 1..ObjSize :
                   getObjByIdx(m[currentSlab], i)[j] = searchedObj[j]
         THEN [objAddr |-> slotAddr(currentSlab, i), found |-> TRUE]
         ELSE searchSlots(currentSlab, m, searchedObj, i + 1)

RECURSIVE searchSlabs(_, _, _, _)
\* search: the loop over s.slabs, from index i
searchSlabs(sl, m, searchedObj, i) ==
    IF i > Len(sl)
    THEN [objAddr |-> 0, found |-> FALSE]
    ELSE LET r == searchSlots(sl[i], m, searchedObj, 0) IN
         IF r.found THEN r ELSE searchSlabs(sl, m, searchedObj, i + 1)

\* slabPool.search
search(sl, m, searchedObj) ==
    IF Len(searchedObj) # ObjSize
    THEN [objAddr |-> 0, found |-> FALSE]
    ELSE searchSlabs(sl, m, searchedObj, 1)

\* the targets handed to the searches: correctly sized, one byte short, and
\* one (zero) byte long
Targets ==
    Objects \cup Slices(ObjSize - 1) \cup {o \o <<0>> : o \in Objects}

\* a call of search(searchedObj)
callSearch(searchedObj) ==
    /\ idle
    /\ LET r == search(slabs, mem, searchedObj) IN
       ret' = Ret("search", searchedObj, r.objAddr, 0, "nil", r.found, 0, <<>>)
    /\ UNCHANGED <<poolVars, ghostVars, panicked>>
    /\ UNCHANGED sbVars

(* --------------------------- searchBatched ----------------------------- *)

RECURSIVE compare(_, _, _)
\* searchBatched: the loop over l comparing storedObj with searchedObj from
\* byte l on; reading searchedObj[l] beyond its length panics
compare(storedObj, searchedObj, l) ==
    IF l > ObjSize THEN "match"
    ELSE IF l > Len(searchedObj) THEN "panic"
    ELSE IF storedObj[l] # searchedObj[l] THEN "differ"
    ELSE compare(storedObj, searchedObj, l + 1)

RECURSIVE scan(_, _, _, _)
\* searchBatched: one goroutine running from slot j, target k, up to its next
\* send on resChan ("match"), its panic, or the end of its slab ("end")
scan(m, targets, j, k) ==
    IF j >= ObjsPerSlab THEN [ev |-> "end", j |-> j, k |-> 0]
    ELSE IF ~bitTest(m, j) \/ k >= Len(targets) THEN scan(m, targets, j + 1, 0)
    ELSE LET c == compare(getObjByIdx(m, j), targets[k + 1], 1) IN
         IF c = "differ" THEN scan(m, targets, j, k + 1)
         ELSE [ev |-> c, j |-> j, k |-> k]

\* the lists of targets handed to searchBatched
TargetLists == UNION {[1..n -> Targets] : n \in 0..MaxTargets}

collecting == sbPc = "collect" /\ ~panicked

\* searchBatched up to the range over resChan: the result list is allocated,
\* the WaitGroup is set and one goroutine per slab and the closer are started
searchBatchedStart(targets) ==
    /\ idle
    /\ sbPc' = "collect"
    /\ searching' = targets
    /\ resultSet' = [i \in 1..Len(targets) |-> 0]
    /\ wg' = Len(slabs)
    /\ tasks' = [i \in 1..Len(slabs) |->
                    [currentSlab |-> slabs[i], st |-> "run", j |-> 0, k |-> 0]]
    /\ resChanClosed' = FALSE
    /\ ret' = Ret("none", <<>>, 0, 0, "nil", FALSE, 0, <<>>)
    /\ UNCHANGED <<poolVars, ghostVars, panicked>>

\* a goroutine that clears the occupancy bit of the slot it has matched
taskRunTaking(i) ==
    /\ collecting
    /\ tasks[i].st = "run"
    /\ LET b == tasks[i].currentSlab
           e == scan(mem[b], searching, tasks[i].j, tasks[i].k) IN
       CASE e.ev = "end" ->
              /\ tasks' = [tasks EXCEPT ![i].st = "done", ![i].j = e.j, ![i].k = e.k]
              /\ wg' = wg - 1
              /\ UNCHANGED <<panicked, mem>>
         [] e.ev = "match" ->
              /\ tasks' = [tasks EXCEPT ![i].st = "send", ![i].j = e.j, ![i].k = e.k]
              /\ mem' = [mem EXCEPT ![b].bits[e.j] = FALSE]
              /\ UNCHANGED <<wg, panicked>>
         [] e.ev = "panic" ->
              /\ panicked' = TRUE
              /\ UNCHANGED <<tasks, wg, mem>>
    /\ UNCHANGED <<slabs, leaked, ghostVars, ret, sbPc, searching, resChanClosed,
                   resultSet>>

\* a goroutine that ends without wg.Done()
taskRunNoDone(i) ==
    /\ collecting
    /\ tasks[i].st = "run"
    /\ LET e == scan(mem[tasks[i].currentSlab], searching, tasks[i].j, tasks[i].k) IN
       CASE e.ev = "end" ->
              /\ tasks' = [tasks EXCEPT ![i].st = "done", ![i].j = e.j, ![i].k = e.k]
              /\ UNCHANGED <<wg, panicked>>
         [] e.ev = "match" ->
              /\ tasks' = [tasks EXCEPT ![i].st = "send", ![i].j = e.j, ![i].k = e.k]
              /\ UNCHANGED <<wg, panicked>>
         [] e.ev = "panic" ->
              /\ panicked' = TRUE
              /\ UNCHANGED <<tasks, wg>>
    /\ UNCHANGED <<poolVars, ghostVars, ret, sbPc, searching, resChanClosed, resultSet>>

\* goroutine i runs until it blocks sending, ends (wg.Done) or panics
taskRun(i) ==
    /\ collecting
    /\ tasks[i].st = "run"
    /\ LET e == scan(mem[tasks[i].currentSlab], searching, tasks[i].j, tasks[i].k) IN
       CASE e.ev = "end" ->
              /\ tasks' = [tasks EXCEPT ![i].st = "done", ![i].j = e.j, ![i].k = e.k]
              /\ wg' = wg - 1
              /\ UNCHANGED panicked
         [] e.ev = "match" ->
              /\ tasks' = [tasks EXCEPT ![i].st = "send", ![i].j = e.j, ![i].k = e.k]
              /\ UNCHANGED <<wg, panicked>>
         [] e.ev = "panic" ->
              /\ panicked' = TRUE
              /\ UNCHANGED <<tasks, wg>>
    /\ UNCHANGED <<poolVars, ghostVars, ret, sbPc, searching, resChanClosed, resultSet>>

\* a collector that keeps the first address it received for a target
receiveFirstWins(i) ==
    /\ collecting
    /\ ~resChanClosed
    /\ tasks[i].st = "send"
    /\ resultSet' = IF resultSet[tasks[i].k + 1] # 0 THEN resultSet
                    ELSE [resultSet EXCEPT ![tasks[i].k + 1] =
                             objAddrFromObj(tasks[i].currentSlab, tasks[i].j)]
    /\ tasks' = [tasks EXCEPT ![i].st = "run", ![i].k = tasks[i].k + 1]
    /\ UNCHANGED <<poolVars, ghostVars, ret, panicked, sbPc, searching, wg,
                   resChanClosed>>

\* the send of goroutine i meets the receive of the collector, which stores
\* the result; the goroutine goes on with the next target
receive(i) ==
    /\ collecting
    /\ ~resChanClosed
    /\ tasks[i].st = "send"
    /\ resultSet' = [resultSet EXCEPT ![tasks[i].k + 1] =
                        objAddrFromObj(tasks[i].currentSlab, tasks[i].j)]
    /\ tasks' = [tasks EXCEPT ![i].st = "run", ![i].k = tasks[i].k + 1]
    /\ UNCHANGED <<poolVars, ghostVars, ret, panicked, sbPc, searching, wg,
                   resChanClosed>>

\* the closer goroutine closing resChan without waiting for the WaitGroup
closeResChanEarly ==
    /\ collecting
    /\ ~resChanClosed
    /\ resChanClosed' = TRUE
    /\ UNCHANGED <<poolVars, ghostVars, ret, panicked, sbPc, searching, tasks, wg,
                   resultSet>>

\* the closer goroutine: wg.Wait() returns, close(resChan)
closeResChan ==
    /\ collecting
    /\ wg = 0
    /\ ~resChanClosed
    /\ resChanClosed' = TRUE
    /\ UNCHANGED <<poolVars, ghostVars, ret, panicked, sbPc, searching, tasks, wg,
                   resultSet>>

\* the range over resChan ends and searchBatched returns resultSet
searchBatchedReturn ==
    /\ collecting
    /\ resChanClosed
    /\ ret' = Ret("searchBatched", searching, 0, 0, "nil", FALSE, 0, resultSet)
    /\ sbPc' = "idle"
    /\ searching' = <<>>
    /\ tasks' = <<>>
    /\ wg' = 0
    /\ resChanClosed' = FALSE
    /\ resultSet' = <<>>
    /\ UNCHANGED <<poolVars, ghostVars, panicked>>

Add == \E obj \in Objects : add(obj)
AddSlab == addSlab
DeleteSlab == \E a \in Addrs : deleteSlab(a)
FindSlabByAddr == \E a \in Addrs : callFindSlabByAddr(a)

Search == \E t \in Targets : callSearch(t)
SearchBatchedStart == \E targets \in TargetLists : searchBatchedStart(targets)
TaskRun == \E i \in DOMAIN tasks : taskRun(i)
Receive == \E i \in DOMAIN tasks : receive(i)

\* the sequential operations of the pool
Next == Add \/ AddSlab \/ DeleteSlab \/ FindSlabByAddr \/ Search

Spec == Init /\ [][Next]_vars

\* the operations that change the pool
NextPool == Add \/ AddSlab \/ DeleteSlab

SpecPool == Init /\ [][NextPool]_vars

\* the operations that change the pool, and the lookups by address
NextFind == Add \/ AddSlab \/ DeleteSlab \/ FindSlabByAddr

SpecFind == Init /\ [][NextFind]_vars

\* the operations that change the pool, and the searches by content
NextSearch == Add \/ AddSlab \/ DeleteSlab \/ Search

SpecSearch == Init /\ [][NextSearch]_vars

\* adds and batched searches, a batched search running to its end before the
\* next call (the caller keeps structural changes out of a running search)
NextBatched ==
    \/ Add
    \/ SearchBatchedStart
    \/ TaskRun
    \/ Receive
    \/ closeResChan
    \/ searchBatchedReturn

SpecBatched == Init /\ [][NextBatched]_vars

\* adds and both searches
NextSearches ==
    \/ Add
    \/ Search
    \/ SearchBatchedStart
    \/ TaskRun
    \/ Receive
    \/ closeResChan
    \/ searchBatchedReturn

SpecSearches == Init /\ [][NextSearches]_vars


\* every operation of the pool, both searches included
NextAll ==
    \/ Add
    \/ AddSlab
    \/ DeleteSlab
    \/ Search
    \/ SearchBatchedStart
    \/ TaskRun
    \/ Receive
    \/ closeResChan
    \/ searchBatchedReturn

SpecAll == Init /\ [][NextAll]_vars


\* the scheduler of the runtime lets every goroutine that can run do so in
\* the end: each searching goroutine, the closer and the collector (the
\* goroutine that called searchBatched); nothing obliges the caller to call
\* add or to start a search
Fairness ==
    /\ \A i \in 1..NumPages : WF_vars(i \in DOMAIN tasks /\ taskRun(i))
    /\ WF_vars(Receive)
    /\ WF_vars(closeResChan)
    /\ WF_vars(searchBatchedReturn)

FairBatched == Init /\ [][NextBatched]_vars /\ Fairness


(* ------------------------------ claims --------------------------------- *)

\* the occupied slots of the pool, as <<index in s.slabs, slot>>
occupied == {p \in (1..Len(slabs)) \X Slots : bitTest(mem[slabs[p[1]]], p[2])}

\* the occupied slots whose bytes equal t
holding(t) == {p \in occupied : getObjByIdx(mem[slabs[p[1]]], p[2]) = t}

\* p comes before q in the order of a scan: slabs in sequence order, slots
\* by ascending index
before(p, q) == p[1] < q[1] \/ (p[1] = q[1] /\ p[2] <= q[2])

\* C1: after any sequence of add, addSlab and deleteSlab calls the slab
\* sequence is sorted by strictly descending base address: of two adjacent
\* entries the earlier has the greater address, and no two entries are equal.
C1_SortedDescending ==
    \A i \in 1..(Len(slabs) - 1) : addr(slabs[i]) > addr(slabs[i + 1])

\* addSlab has just put its slab between two others, after a deleteSlab
C1_Witness ==
    /\ ret.op = "addSlab"
    /\ ret.err = "nil"
    /\ deleted
    /\ Len(slabs) = 3
    /\ ret.slabAddr = addr(slabs[2])

\* C2: over a sequence of add calls with no deleteSlab, every ObjAddr add
\* returned differs from every ObjAddr returned earlier, and get on a returned
\* ObjAddr yields the bytes passed to the add that returned it, also after
\* later adds.
C2_UniqueAndResolvable ==
    ~deleted =>
        /\ Cardinality({r.addr : r \in issued}) = nIssued
        /\ \A r \in issued : get(r.addr) = r.obj

\* four adds have returned addresses in two slabs, not all for the same bytes
C2_Witness ==
    /\ ~deleted
    /\ nIssued = 4
    /\ Len(slabs) >= 2
    /\ \E r1, r2 \in issued : r1.obj # r2.obj

\* C3: starting from an empty pool and calling only add, the k-th add the
\* pool accepts reports a new slab (non-zero SlabAddr) exactly when k-1 is a
\* multiple of objsPerSlab, and after n adds the pool holds
\* ceil(n / objsPerSlab) slabs.
C3_Capacity ==
    onlyAdds =>
        /\ Len(slabs) = (nIssued + ObjsPerSlab - 1) \div ObjsPerSlab
        /\ (ret.op = "add" /\ ret.err = "nil") =>
               (ret.slabAddr # 0 <=> (nIssued - 1) % ObjsPerSlab = 0)

\* the add after objsPerSlab adds has created the second slab
C3_Witness ==
    /\ onlyAdds
    /\ nIssued = ObjsPerSlab + 1
    /\ ret.op = "add"
    /\ ret.slabAddr # 0
    /\ Len(slabs) = 2

\* what C4 says of one call add(obj), from the state before (unprimed) to the
\* state after (primed)
addPost(obj) ==
    LET free(b) == {i \in Slots : ~bitTest(mem[b], i)}
        fit == {n \in 1..Len(slabs) : free(slabs[n]) # {}}
        same(b) == \A i \in Slots :
                       /\ mem'[b].bits[i] = mem[b].bits[i]
                       /\ mem'[b].objs[i] = mem[b].objs[i]
    IN
    /\ (ret'.slabAddr # 0) <=> (Len(slabs') = Len(slabs) + 1)
    /\ IF fit # {}
       THEN LET b == slabs[Min(fit)]
                i == Min(free(b))
            IN /\ ret'.err = "nil"
               /\ ret'.slabAddr = 0
               /\ slabs' = slabs
               /\ ret'.objAddr = slotAddr(b, i)
               /\ mem'[b].bits[i]
               /\ mem'[b].objs[i] = obj
               /\ \A i2 \in Slots \ {i} :
                      /\ mem'[b].bits[i2] = mem[b].bits[i2]
                      /\ mem'[b].objs[i2] = mem[b].objs[i2]
               /\ \A b2 \in (DOMAIN mem) \ {b} : same(b2)
       ELSE \/ /\ ret'.err # "nil"
               /\ ret'.slabAddr = 0
               /\ slabs' = slabs
               /\ mem' = mem
            \/ /\ ret'.err = "nil"
               /\ Len(slabs') = Len(slabs) + 1
               /\ ret'.slabAddr \notin {addr(slabs[n]) : n \in 1..Len(slabs)}
               /\ {slabs'[n] : n \in 1..Len(slabs')}
                      = {slabs[n] : n \in 1..Len(slabs)} \cup {ret'.slabAddr}
               /\ ret'.objAddr = slotAddr(ret'.slabAddr, 0)
               /\ mem'[ret'.slabAddr].bits[0]
               /\ mem'[ret'.slabAddr].objs[0] = obj
               /\ \A i2 \in Slots \ {0} : ~mem'[ret'.slabAddr].bits[i2]
               /\ \A b2 \in DOMAIN mem : same(b2)

\* C4: add places the object in the first slab, in sequence order, that has
\* a free slot, returns 0 as SlabAddr and leaves the number of slabs as it
\* is; only when no slab has a free slot does it create one new slab, place
\* the object in it and return its base address.  The SlabAddr is non-zero
\* if and only if the call created a slab.
C4_FirstFit == [][\A obj \in Objects : add(obj) => addPost(obj)]_vars

\* add has passed a full first slab and placed its object in the second slab
C4_Witness ==
    /\ ret.op = "add"
    /\ ret.err = "nil"
    /\ ret.slabAddr = 0
    /\ Len(slabs) >= 2
    /\ \A i \in Slots : bitTest(mem[slabs[1]], i)
    /\ \E i \in Slots : ret.objAddr = slotAddr(slabs[2], i)

\* the addresses of slab n of the sequence the pool has handed out: its base
\* address and the addresses of its occupied slots
liveAddrs(n) ==
    {addr(slabs[n])} \cup {slotAddr(slabs[n], i) : i \in {x \in Slots : <<n, x>> \in occupied}}

\* C5: for every address that is the base address of a slab of the sequence
\* or the address of an object stored in such a slab, findSlabByAddr returns
\* the index of that slab.
C5_FindsOwner ==
    /\ \A n \in 1..Len(slabs) : \A a \in liveAddrs(n) :
           findSlabByAddr(slabs, a) = n - 1
    /\ ret.op = "findSlabByAddr" =>
           \A n \in 1..Len(slabs) : ret.arg \in liveAddrs(n) => ret.idx = n - 1

\* findSlabByAddr has returned the middle slab of three for the address of
\* an object in its last slot, after a deleteSlab
C5_Witness ==
    /\ ret.op = "findSlabByAddr"
    /\ deleted
    /\ Len(slabs) = 3
    /\ <<2, ObjsPerSlab - 1>> \in occupied
    /\ ret.arg = slotAddr(slabs[2], ObjsPerSlab - 1)
    /\ ret.idx = 1

\* the addresses inside the mapped range of a slab of the sequence
inLiveSlab(a) ==
    \E n \in 1..Len(slabs) : addr(slabs[n]) <= a /\ a < addr(slabs[n]) + getTotalLength

\* C6: for every address that belongs to no live slab (below all slabs, in a
\* gap between two slabs, above the end of the highest slab, or the base of a
\* slab deleteSlab has removed) findSlabByAddr returns the length of the slab
\* sequence.
C6_NotFoundOutsideSlabs ==
    (ret.op = "findSlabByAddr" /\ ~inLiveSlab(ret.arg)) => ret.idx = Len(slabs)

\* C7: for a target of objSize bytes search reports found exactly when an
\* occupied slot holds bytes equal to the target, and then returns the address
\* of the first such slot in scan order; a slot whose occupancy bit is clear
\* is never matched, even when its bytes equal the target.
C7_SearchFirstMatch ==
    (ret.op = "search" /\ Len(ret.arg) = ObjSize) =>
        /\ ret.found <=> holding(ret.arg) # {}
        /\ ret.found =>
               \E p \in holding(ret.arg) :
                   /\ \A q \in holding(ret.arg) : before(p, q)
                   /\ ret.objAddr = slotAddr(slabs[p[1]], p[2])

\* search has found its target in a later slab, behind a free slot of an
\* earlier slab whose zero bytes equal the target, and before another match
C7_Witness ==
    /\ ret.op = "search"
    /\ ret.found
    /\ \E p \in holding(ret.arg) :
           /\ ret.objAddr = slotAddr(slabs[p[1]], p[2])
           /\ \E n \in 1..(p[1] - 1) : \E i \in Slots :
                  /\ ~bitTest(mem[slabs[n]], i)
                  /\ getObjByIdx(mem[slabs[n]], i) = ret.arg
           /\ \E q \in holding(ret.arg) : q # p

\* C8: searchBatched returns a list as long as its targets in which entry i
\* is 0 if no occupied slot holds bytes equal to targets[i], and otherwise is
\* the address of an occupied slot whose bytes equal targets[i], under every
\* interleaving of the goroutines.
C8_BatchedResult ==
    ret.op = "searchBatched" =>
        /\ Len(ret.list) = Len(ret.arg)
        /\ \A i \in 1..Len(ret.arg) :
               IF holding(ret.arg[i]) = {}
               THEN ret.list[i] = 0
               ELSE ret.list[i] \in
                        {slotAddr(slabs[p[1]], p[2]) : p \in holding(ret.arg[i])}

\* C8 for the calls whose targets all have objSize bytes
C8_BatchedResultSized ==
    (ret.op = "searchBatched" /\ \A i \in 1..Len(ret.arg) : Len(ret.arg[i]) = ObjSize)
        => C8_BatchedResult

\* C9: for any stored objects (the same bytes in several slots included) and
\* any single target, search(target) reports found exactly when the entry of
\* searchBatched([target]) is non-zero, and then both report the same address.
C9_SearchesAgree ==
    (ret.op = "searchBatched" /\ Len(ret.arg) = 1) =>
        LET r == search(slabs, mem, ret.arg[1]) IN
        /\ r.found <=> ret.list[1] # 0
        /\ r.found => ret.list[1] = r.objAddr

\* C9 for the targets of objSize bytes alone
C9_SearchesAgreeSized ==
    (ret.op = "searchBatched" /\ Len(ret.arg) = 1 /\ Len(ret.arg[1]) = ObjSize)
        => C9_SearchesAgree

\* the two searches agree on found / not found for a target of objSize bytes
C9_FoundAgreesSized ==
    (ret.op = "searchBatched" /\ Len(ret.arg) = 1 /\ Len(ret.arg[1]) = ObjSize) =>
        (search(slabs, mem, ret.arg[1]).found <=> ret.list[1] # 0)

\* C10: a target whose length differs from objSize is "not found" and is not
\* fatal in both searches: search returns found = false, and searchBatched
\* returns 0 at the index of that target and completes normally.
C10_SizeMismatchNotFound ==
    /\ \A t \in Targets : Len(t) # ObjSize => ~search(slabs, mem, t).found
    /\ ~panicked
    /\ ret.op = "searchBatched" =>
           \A i \in 1..Len(ret.arg) : Len(ret.arg[i]) # ObjSize => ret.list[i] = 0

\* the goroutine of slab b sends a result for slot j and target index k
emits(b, j, k) ==
    /\ bitTest(mem[b], j)
    /\ compare(getObjByIdx(mem[b], j), searching[k + 1], 1) = "match"

\* the addresses the goroutines send for target index k
emitted(k) ==
    {objAddrFromObj(tasks[i].currentSlab, j) :
        <<i, j>> \in {p \in (DOMAIN tasks) \X Slots : emits(tasks[p[1]].currentSlab, p[2], k)}}

\* what C11 says of the state searchBatched returns from
returnPost ==
    /\ \A i \in DOMAIN tasks : tasks[i].st = "done"
    /\ wg = 0
    /\ Len(tasks) = Len(slabs)
    /\ ret'.list = resultSet
    /\ \A k \in 0..(Len(searching) - 1) :
           IF emitted(k) = {} THEN resultSet[k + 1] = 0
           ELSE resultSet[k + 1] \in emitted(k)

\* C11: searchBatched returns only after every goroutine it started has
\* finished and every result a goroutine sent has been written into the
\* result list: at the return no goroutine is running or blocked in a send,
\* and no sent match is missing from the list.
C11_ReturnsAfterAll == [][searchBatchedReturn => returnPost]_vars

\* searchBatched has returned matches found by the goroutines of two slabs
C11_Witness ==
    /\ ret.op = "searchBatched"
    /\ Len(slabs) >= 2
    /\ \E m, n \in 1..Len(ret.list) :
           /\ ret.list[m] \in {slotAddr(slabs[1], i) : i \in Slots}
           /\ ret.list[n] \in {slotAddr(slabs[2], i) : i \in Slots}

\* the base addresses of the slabs of the sequence
slabBases == {addr(slabs[n]) : n \in 1..Len(slabs)}

\* the sequence sl without its entries equal to b, the others in their order
without(sl, b) ==
    LET keep == {n \in 1..Len(sl) : sl[n] # b}
        nth(m) == CHOOSE n \in keep : Cardinality({x \in keep : x <= n}) = m
    IN [m \in 1..Cardinality(keep) |-> sl[nth(m)]]

\* what C12 says of one call deleteSlab(s) for the base address s of a slab
deletePost(s) ==
    /\ Len(slabs') = Len(slabs) - 1
    /\ slabs' = without(slabs, s)
    /\ s \notin DOMAIN mem'
    /\ ret'.err = "nil" => (leaked' = leaked /\ s \in Bases \ (DOMAIN mem' \cup leaked'))
    /\ ret'.err \in {"nil", "EINVAL"}
    /\ ~panicked'
    /\ \A b \in (DOMAIN mem) \ {s} :
           /\ b \in DOMAIN mem'
           /\ \A i \in Slots :
                  /\ mem'[b].bits[i] = mem[b].bits[i]
                  /\ mem'[b].objs[i] = mem[b].objs[i]
    /\ \A t \in Objects :
           LET r == search(slabs, mem, t)
               r2 == search(slabs', mem', t)
               others == {slotAddr(slabs[p[1]], p[2]) :
                             p \in {q \in holding(t) : slabs[q[1]] # s}}
           IN /\ r2.found <=> others # {}
              /\ r2.found => r2.objAddr \in others
              /\ (r.found /\ r.objAddr \in others) => r2 = r

\* C12: deleteSlab(s), for s the base address of a slab of the pool, removes
\* exactly that slab from the sequence and releases its region; every other
\* slab stays in the sequence, in the same relative order, with its occupancy
\* bits and object bytes unchanged, so that every object stored in another
\* slab is still found by search at the same address.
C12_DeleteExactlyThat ==
    [][\A s \in Addrs : (s \in slabBases /\ deleteSlab(s)) => deletePost(s)]_vars

\* deleteSlab has released the middle one of three slabs; the two slabs left
\* hold objects
C12_Witness ==
    /\ ret.op = "deleteSlab"
    /\ ret.err = "nil"
    /\ leaked = {}
    /\ slabs = <<3 * PageLen, PageLen>>
    /\ 2 * PageLen \in freeBases
    /\ <<1, 0>> \in occupied
    /\ <<2, 0>> \in occupied

\* C13: deleteSlab called with an address that is not the base address of a
\* slab of the pool (below all slabs, inside or between slabs, or on an empty
\* pool) returns an error and leaves the slab sequence and the mappings as
\* they are: it neither removes or unmaps another slab nor indexes out of
\* range.
C13_DeleteUnknownIsError ==
    [][\A a \in Addrs :
          (a \notin slabBases /\ deleteSlab(a)) =>
              /\ ~panicked'
              /\ ret'.err \notin {"nil", "panic"}
              /\ slabs' = slabs
              /\ mem' = mem
              /\ leaked' = leaked]_vars

\* the part of C13 on the out-of-range index alone
C13_NoIndexOutOfRange == ret.op = "deleteSlab" => ~panicked

\* the part of C13 on the other slabs alone
C13_NoOtherSlabRemoved ==
    [][\A a \in Addrs :
          (a \notin slabBases /\ deleteSlab(a) /\ ~panicked') => slabs' = slabs]_vars

\* what C14 says of one call of deleteSlab whose Munmap failed
unmapFailedPost ==
    \E b \in slabBases :
        /\ leaked' = leaked \cup {b}
        /\ b \notin leaked
        /\ b \notin {slabs'[n] : n \in 1..Len(slabs')}
        /\ b \notin DOMAIN mem'
        /\ slabs' = without(slabs, b)
        /\ Len(slabs') = Len(slabs) - 1
        /\ \A i \in 1..(Len(slabs') - 1) : addr(slabs'[i]) > addr(slabs'[i + 1])

\* C14: when unmapping the region of the slab fails, deleteSlab returns that
\* error and the slab is unlinked already: after the failed call the sequence
\* no longer contains the slab, is one entry shorter and is still sorted in
\* strictly descending order.
C14_UnmapFailureUnlinked ==
    [][\A a \in Addrs : (deleteSlab(a) /\ ret'.err = "EINVAL") => unmapFailedPost]_vars

\* a deleteSlab whose Munmap failed has left two slabs in the sequence and
\* its region unreleased
C14_Witness ==
    /\ ret.op = "deleteSlab"
    /\ ret.err = "EINVAL"
    /\ Len(slabs) = 2
    /\ \E b \in leaked : addr(slabs[2]) < b /\ b < addr(slabs[1])

\* C15: when reserving the memory of a new slab fails, addSlab and add return
\* the error to their caller (no second attempt), add returns 0 as ObjAddr
\* and as SlabAddr, and the pool is as before: the same slabs in the same
\* order, the occupancy bits and the bytes of every slab unchanged.
C15_NoMemoryNoChange ==
    [][((Add \/ AddSlab) /\ ret'.err = "ENOMEM") =>
           /\ ret'.objAddr = 0
           /\ ret'.slabAddr = 0
           /\ slabs' = slabs
           /\ mem' = mem
           /\ leaked' = leaked
           /\ ~panicked']_vars

\* add has returned the error of the mapping primitive with every slab of
\* the pool full, while a region was still free
C15_Witness ==
    /\ ret.op = "add"
    /\ ret.err = "ENOMEM"
    /\ ret.objAddr = 0
    /\ ret.slabAddr = 0
    /\ Len(slabs) >= 1
    /\ \A n \in 1..Len(slabs) : \A i \in Slots : bitTest(mem[slabs[n]], i)
    /\ freeBases # {}

\* what C16 says findSlabByAddr(q) is in the current state
greatestBaseBelow(q) ==
    LET qual == {n \in 1..Len(slabs) : addr(slabs[n]) <= q} IN
    IF qual = {} THEN Len(slabs)
    ELSE (CHOOSE n \in qual : \A m \in qual : addr(slabs[m]) <= addr(slabs[n])) - 1

searchStep ==
    Search \/ SearchBatchedStart \/ TaskRun \/ Receive \/ closeResChan \/ searchBatchedReturn

\* C17: search and searchBatched only read the pool: no step of either
\* changes the slab sequence, an occupancy bit or a stored byte, no step is
\* taken on the pool while a batched search runs, and the result list is
\* written by the collector alone (allocated at the start of the call, gone
\* at its return), so after either search returns the pool is as it was
\* before the call.
C17_SearchesReadOnly ==
    [][/\ searchStep => UNCHANGED <<slabs, mem, leaked>>
       /\ sbPc = "collect" => UNCHANGED <<slabs, mem, leaked>>
       /\ (TaskRun \/ closeResChan) => UNCHANGED resultSet
       /\ resultSet' # resultSet =>
              (Receive \/ SearchBatchedStart \/ searchBatchedReturn)]_vars

\* searchBatched has returned two different addresses for its two targets
\* from a pool of three objects
C17_Witness ==
    /\ ret.op = "searchBatched"
    /\ Len(ret.list) = 2
    /\ ret.list[1] # 0
    /\ ret.list[2] # 0
    /\ ret.list[1] # ret.list[2]
    /\ stored = 3

\* position <<j, k>> comes before position <<j2, k2>> in the order of the
\* loops of a goroutine: slots ascending, for one slot targets ascending
posLt(t, t2) == t.j < t2.j \/ (t.j = t2.j /\ t.k < t2.k)

\* in one step every goroutine stays where it is or moves forward, and the
\* goroutine whose send has been received has moved past the position sent
sendsAscend ==
    \A i \in (DOMAIN tasks) \cap (DOMAIN tasks') :
        /\ \/ tasks'[i].j = tasks[i].j /\ tasks'[i].k = tasks[i].k
           \/ posLt(tasks[i], tasks'[i])
        /\ (tasks[i].st = "send" /\ tasks'[i] # tasks[i]) =>
               /\ tasks'[i].j = tasks[i].j
               /\ tasks'[i].k = tasks[i].k + 1
               /\ resultSet'[tasks[i].k + 1] = slotAddr(tasks[i].currentSlab, tasks[i].j)

\* the entries of a returned list for the targets whose copies all lie in
\* one slab
lastSlotOfSingleSlab ==
    ret.op = "searchBatched" =>
        \A n \in 1..Len(ret.arg) :
            LET h == holding(ret.arg[n]) IN
            (h # {} /\ \A p, q \in h : p[1] = q[1]) =>
                \E p \in h : /\ \A q \in h : q[2] <= p[2]
                             /\ ret.list[n] = slotAddr(slabs[p[1]], p[2])

\* C18: a goroutine of searchBatched sends its matches in ascending order
\* of the slot index, and for one slot in ascending order of the target
\* index, so that for a target whose stored copies all lie in one slab the
\* entry returned is the address of the matching slot with the highest
\* index; nothing is said of the order of sends of different goroutines.
C18_AscendingWithinSlab == [][sendsAscend]_vars /\ []lastSlotOfSingleSlab

\* searchBatched has returned the address of the second slot of a slab whose
\* two slots hold its target, with another slab in the pool
C18_Witness ==
    /\ ret.op = "searchBatched"
    /\ Len(slabs) >= 2
    /\ \E n \in 1..Len(ret.arg) : \E m \in 1..Len(slabs) :
           /\ holding(ret.arg[n]) = {<<m, 0>>, <<m, 1>>}
           /\ ret.list[n] = slotAddr(slabs[m], 1)

\* the regions that are mapped: those of the slabs the pool holds and those
\* whose release has failed
mapped == (DOMAIN mem) \cup leaked

\* C19: the region of a slab is released only by deleteSlab and only after
\* the slab has been unlinked: in every state reachable by add, addSlab,
\* deleteSlab and the searches every slab the sequence refers to is mapped
\* and owned by the pool, and a step that releases a region is a deleteSlab
\* that has taken the slab out of the sequence.
C19_ListedIsMapped ==
    /\ [](\A n \in 1..Len(slabs) : slabs[n] \in DOMAIN mem /\ slabs[n] \notin leaked)
    /\ [][\A b \in mapped \ mapped' :
             /\ DeleteSlab
             /\ b \in slabBases
             /\ b \notin {slabs'[n] : n \in 1..Len(slabs')}]_vars

\* deleteSlab has released the region of one of three slabs, with three
\* objects left in the two other slabs
C19_Witness ==
    /\ ret.op = "deleteSlab"
    /\ ret.err = "nil"
    /\ Len(slabs) = 2
    /\ Cardinality(freeBases) = NumPages - 2
    /\ stored = 3

\* a batched search runs whose targets all have objSize bytes
sizedRunning ==
    sbPc = "collect" /\ \A n \in 1..Len(searching) : Len(searching[n]) = ObjSize

\* C20: under a fair scheduler, and with no change of the pool while the
\* search runs, every call of searchBatched with targets of objSize bytes
\* returns in the end, for any number of slabs (none included) and of matches:
\* no goroutine stays blocked in a send for ever, the collector does not wait
\* for ever, and resChan is closed once, after the last send.
C20_BatchedTerminates ==
    /\ sizedRunning ~> sbPc = "idle"
    /\ \A i \in 1..NumPages :
           (sizedRunning /\ i \in DOMAIN tasks /\ tasks[i].st = "send")
               ~> (i \notin DOMAIN tasks \/ tasks[i].st # "send")
    /\ [](resChanClosed => \A i \in DOMAIN tasks : tasks[i].st = "done")
    /\ [][closeResChan =>
              (~resChanClosed /\ \A i \in DOMAIN tasks : tasks[i].st = "done")]_vars
    /\ [][resChanClosed => (resChanClosed' \/ searchBatchedReturn)]_vars
    /\ [](sizedRunning => ~panicked)

\* a search with two targets of objSize bytes has returned from a pool of two
\* full slabs, every goroutine having sent at least two matches
C20_Witness ==
    /\ ret.op = "searchBatched"
    /\ Len(ret.arg) = 2
    /\ \A n \in 1..2 : Len(ret.arg[n]) = ObjSize
    /\ ret.arg[1] # ret.arg[2]
    /\ Len(slabs) = 2
    /\ stored = 4
    /\ \A m \in 1..2 : \A n \in 1..2 : \E i \in Slots : <<m, i>> \in holding(ret.arg[n])

\* a search has returned from the empty pool
C20_WitnessNoSlab ==
    /\ ret.op = "searchBatched"
    /\ Len(ret.arg) = 2
    /\ slabs = <<>>

====
